---- MODULE Spec2Model ----
(***************************************************************************)
(* nswine: the INF section rewriter `infilt` (scanner, emit closure and    *)
(* driver) run against the filter functions of the repository.             *)
(*                                                                         *)
(* A Go string or []byte is a sequence of one-character strings; the empty *)
(* string is << >>.                                                        *)
(***************************************************************************)
EXTENDS Integers, Sequences, FiniteSets, TLC

\* Bounds of the model.
MaxChunks == 3
MaxEmits == 3

LF == "\n"
CR == "\r"
LB == "["
RB == "]"

SecA == <<"A">>
SecB == <<"B">>

----------------------------------------------------------------------------
(* Library functions the code calls, computed as the library computes them *)

\* bytes.Contains / strings.Contains
Contains(s, sub) ==
    \E i \in 0..Len(s) : i + Len(sub) <= Len(s) /\ SubSeq(s, i + 1, i + Len(sub)) = sub

\* strings.HasSuffix
HasSuffix(s, suffix) ==
    Len(s) >= Len(suffix) /\ SubSeq(s, Len(s) - Len(suffix) + 1, Len(s)) = suffix

\* bytes.CutPrefix: (after, found)
CutPrefix(s, prefix) ==
    IF Len(s) >= Len(prefix) /\ SubSeq(s, 1, Len(prefix)) = prefix
    THEN [after |-> SubSeq(s, Len(prefix) + 1, Len(s)), found |-> TRUE]
    ELSE [after |-> s, found |-> FALSE]

\* bytes.CutSuffix: (before, found)
CutSuffix(s, suffix) ==
    IF HasSuffix(s, suffix)
    THEN [before |-> SubSeq(s, 1, Len(s) - Len(suffix)), found |-> TRUE]
    ELSE [before |-> s, found |-> FALSE]

\* bytes.Lines, one step: the first line of a non-empty s, its "\n" included;
\* the rest of s when it holds no "\n".
FirstLine(s) ==
    IF \E i \in 1..Len(s) : s[i] = LF
    THEN SubSeq(s, 1, CHOOSE i \in 1..Len(s) : s[i] = LF /\ \A j \in 1..(i - 1) : s[j] # LF)
    ELSE s

----------------------------------------------------------------------------
(* infilt: the check of the line terminators                               *)

\* A slip: only the first line is looked at.
ForeignNewlinesFirstLine(b) == Contains(FirstLine(b), <<CR>>)

\* bytes.Contains(buf, []byte("\r"))
ForeignNewlines(b) == Contains(b, <<CR>>)

----------------------------------------------------------------------------
(* infilt: the scanner `in`                                                *)

\* A slip: a header does not become the scanner's cur.
ScanLineKeepsCur(line, c) ==
    LET p == CutPrefix(line, <<LB>>)
        s == CutSuffix(p.after, <<RB, LF>>)
    IN  IF p.found /\ s.found
        THEN [section |-> s.before, line |-> << >>, cur |-> c]
        ELSE [section |-> c, line |-> line, cur |-> c]

\* One iteration of the loop over bytes.Lines(buf): the record yielded for
\* `line` and the value of the scanner's cur after it.
ScanLine(line, c) ==
    LET p == CutPrefix(line, <<LB>>)
        s == CutSuffix(p.after, <<RB, LF>>)
    IN  IF p.found /\ s.found
        THEN [section |-> s.before, line |-> << >>, cur |-> s.before]
        ELSE [section |-> c, line |-> line, cur |-> c]

----------------------------------------------------------------------------
(* infilt: the emit closure                                                *)

\* A slip: the check of the trailing newline is left out.
EmitPanicsEmptyOnly(section, line) == section = << >> /\ line = << >>

\* The two panics of emit.
EmitPanics(section, line) ==
    \/ section = << >> /\ line = << >>
    \/ line # << >> /\ ~HasSuffix(line, <<LF>>)

\* A slip: a pure header emission of the current section writes nothing.
NeedsHeaderOnChange(section, line, c) == section # << >> /\ c # section

\* A slip: every call with a section writes its header.
NeedsHeaderAlways(section, line, c) == section # << >>

\* The condition under which emit writes a header.
NeedsHeader(section, line, c) ==
    section # << >> /\ (line = << >> \/ c # section)

\* A slip: the header is written without its newline.
HeaderLineNoNewline(section) == <<LB>> \o section \o <<RB>>

\* "[" + section + "]\n"
HeaderLine(section) == <<LB>> \o section \o <<RB, LF>>

\* What a call of emit that does not panic appends to res.
EmitText(section, line, c) ==
    (IF NeedsHeader(section, line, c) THEN HeaderLine(section) ELSE << >>) \o line

\* A slip: cur is not set when a header is written.
EmitCurStale(section, line, c) == c

\* The value of emit's cur after a call that does not panic.
EmitCur(section, line, c) ==
    IF NeedsHeader(section, line, c) THEN section ELSE c

----------------------------------------------------------------------------
(* The filter functions handed to infilt: each gives, for one scanned      *)
(* record, the emit calls of one pass through its loop body.               *)

Call(section, line) == [section |-> section, line |-> line]

\* TestInfilt/Passthrough
FnPassthrough(r) == <<Call(r.section, r.line)>>

\* TestInfilt/PassthroughImplicit
FnPassthroughImplicit(r) ==
    IF r.line # << >> THEN <<Call(r.section, r.line)>> ELSE << >>

\* TestInfilt/RemoveSection, for the section name sec
FnRemoveSection(r, sec) ==
    IF r.section = sec THEN << >> ELSE <<Call(r.section, r.line)>>

\* TestInfilt/RemoveLine, for the pattern pat
FnRemoveLine(r, pat) ==
    IF Contains(r.line, pat) THEN << >> ELSE <<Call(r.section, r.line)>>

\* The wine.inf filter of run() with -optimize: the contents of the section
\* sec are ignored, its header is kept.
FnWineInf(r, sec) ==
    IF r.line # << >> /\ r.section = sec THEN << >> ELSE <<Call(r.section, r.line)>>

\* A filter that re-emits the lines of section sec under section to and
\* emits nothing else.
FnRetarget(r, sec, to) ==
    IF r.line # << >> /\ r.section = sec THEN <<Call(to, r.line)>> ELSE << >>

Fn(kind, sec, pat, to) == [kind |-> kind, sec |-> sec, pat |-> pat, to |-> to]

Passthrough == Fn("Passthrough", << >>, << >>, << >>)
PassthroughImplicit == Fn("PassthroughImplicit", << >>, << >>, << >>)
RemoveSection == Fn("RemoveSection", SecA, << >>, << >>)
RemoveLine == Fn("RemoveLine", << >>, <<"x">>, << >>)
WineInf == Fn("WineInf", SecA, << >>, << >>)
Retarget == Fn("Retarget", SecB, << >>, SecA)
\* A filter that calls emit with arguments of its own.
Free == Fn("Free", << >>, << >>, << >>)

LoopFns == {Passthrough, PassthroughImplicit, RemoveSection, RemoveLine, WineInf, Retarget}

FnBody(f, r) ==
    CASE f.kind = "Passthrough" -> FnPassthrough(r)
      [] f.kind = "PassthroughImplicit" -> FnPassthroughImplicit(r)
      [] f.kind = "RemoveSection" -> FnRemoveSection(r, f.sec)
      [] f.kind = "RemoveLine" -> FnRemoveLine(r, f.pat)
      [] f.kind = "WineInf" -> FnWineInf(r, f.sec)
      [] f.kind = "Retarget" -> FnRetarget(r, f.sec, f.to)
      [] OTHER -> << >>

----------------------------------------------------------------------------
(* Inputs                                                                  *)

Chunks ==
    { <<LB, "A", RB, LF>>, <<LB, "B", RB, LF>>, <<LB, "A", RB>>,
      <<"x", LF>>, <<"x">>, <<LB>>, <<RB>>, <<LF>>, <<CR>> }

RECURSIVE ChunkSeqs(_)
ChunkSeqs(n) ==
    IF n = 0 THEN {<< >>}
    ELSE LET prev == ChunkSeqs(n - 1)
         IN  prev \cup {p \o c : p \in prev, c \in Chunks}

Bufs == ChunkSeqs(MaxChunks)

\* Scenario A: "[S]\nkeep,1\ndrop,2\n", lines containing "drop" are dropped.
ScenarioABuf ==
    <<LB, "S", RB, LF, "k", "e", "e", "p", ",", "1", LF, "d", "r", "o", "p", ",", "2", LF>>
ScenarioAFn == Fn("RemoveLine", << >>, <<"d", "r", "o", "p">>, << >>)

\* Scenario B: "[A]\nx\n[B]\ny\n", B's line is emitted under A.
ScenarioBBuf == <<LB, "A", RB, LF, "x", LF, LB, "B", RB, LF, "y", LF>>
ScenarioBFn == Retarget

\* What a Free filter passes to emit.
FreeSections == {<< >>, SecA, SecB}
FreeLines == {<< >>, <<"x", LF>>, <<"x">>, <<LB, "A", RB, LF>>}
FreeBufs == {<<"x", LF>>}

Inputs ==
    (Bufs \X LoopFns)
    \cup {<<ScenarioABuf, ScenarioAFn>>, <<ScenarioBBuf, ScenarioBFn>>}
    \cup (FreeBufs \X {Free})

----------------------------------------------------------------------------
(* State                                                                   *)

VARIABLES
    buf,    \* the input buffer
    fn,     \* the filter function
    pc,     \* "call", "fn", "done", "error", "panic"
    rest,   \* scanner: the part of buf bytes.Lines has not yielded yet
    scur,   \* scanner: cur
    todo,   \* the emit calls left in the current pass of fn's loop body
    res,    \* emit: the output buffer
    cur,    \* emit: cur
    ret,    \* what the function given to transform returned
    recs,   \* history: the records the scanner yielded
    emits,  \* history: the calls of emit
    file,   \* transform: the content of the stored file
    tpc,    \* transform: "fn", "written", "fnerror", "writeerror"
    dir,    \* pruner: the names of the entries of the directory
    imports, \* pruner: what peImports returns for each file
    dlldeps, \* pruner: the dependency map
    remove, \* pruner: the remove map of the round
    pending, \* pruner: the keys of remove the range loop has not visited yet
    it,     \* pruner: the iteration counter
    log,    \* pruner: the records written by slog.Debug, in order
    ppc     \* pruner: "build", "mark", "remove", "done", "failed"

infiltVars == <<buf, fn, pc, rest, scur, todo, res, cur, ret, recs, emits>>
transformVars == <<file, tpc>>
pruneVars == <<dir, imports, dlldeps, remove, pending, it, log, ppc>>
vars == <<infiltVars, transformVars, pruneVars>>

NoReturn == [buf |-> << >>, nil |-> TRUE, err |-> ""]

\* The empty map.
NoMap == [k \in {} |-> << >>]

\* The pruner is not running.
IdlePrune ==
    /\ dir = {}
    /\ imports = NoMap
    /\ dlldeps = NoMap
    /\ remove = NoMap
    /\ pending = {}
    /\ it = 0
    /\ log = << >>
    /\ ppc = "idle"

Init ==
    /\ \E in \in Inputs : buf = in[1] /\ fn = in[2]
    /\ pc = "call"
    /\ rest = << >>
    /\ scur = << >>
    /\ todo = << >>
    /\ res = << >>
    /\ cur = << >>
    /\ ret = NoReturn
    /\ recs = << >>
    /\ emits = << >>
    /\ file = buf
    /\ tpc = "fn"
    /\ IdlePrune

\* if bytes.Contains(buf, "\r") { return nil, error }
Reject ==
    /\ pc = "call"
    /\ ForeignNewlines(buf)
    /\ pc' = "error"
    /\ ret' = [buf |-> << >>, nil |-> TRUE, err |-> "expected linux-style newlines"]
    /\ UNCHANGED <<pruneVars, transformVars, buf, fn, rest, scur, todo, res, cur, recs, emits>>

\* fn(emit, in) is called; fn starts to range over in.
CallFn ==
    /\ pc = "call"
    /\ ~ForeignNewlines(buf)
    /\ pc' = "fn"
    /\ rest' = buf
    /\ scur' = << >>
    /\ UNCHANGED <<pruneVars, transformVars, buf, fn, todo, res, cur, ret, recs, emits>>

\* The scanner yields the next record to fn's loop body.
Yield ==
    /\ pc = "fn"
    /\ todo = << >>
    /\ rest # << >>
    /\ LET line == FirstLine(rest)
           r == ScanLine(line, scur)
           rec == [section |-> r.section, line |-> r.line]
       IN  /\ rest' = SubSeq(rest, Len(line) + 1, Len(rest))
           /\ scur' = r.cur
           /\ recs' = Append(recs, rec)
           /\ todo' = FnBody(fn, rec)
    /\ UNCHANGED <<pruneVars, transformVars, buf, fn, pc, res, cur, ret, emits>>

\* The body of the emit closure, called with (section, line).
DoEmit(section, line) ==
    /\ emits' = Append(emits, Call(section, line))
    /\ IF EmitPanics(section, line)
       THEN /\ pc' = "panic"
            /\ UNCHANGED <<res, cur>>
       ELSE /\ res' = res \o EmitText(section, line, cur)
            /\ cur' = EmitCur(section, line, cur)
            /\ pc' = "fn"

\* fn's loop body calls emit.
EmitNext ==
    /\ pc = "fn"
    /\ todo # << >>
    /\ DoEmit(Head(todo).section, Head(todo).line)
    /\ todo' = Tail(todo)
    /\ UNCHANGED <<pruneVars, transformVars, buf, fn, rest, scur, ret, recs>>

\* A Free filter calls emit.
EmitFree ==
    /\ pc = "fn"
    /\ fn.kind = "Free"
    /\ Len(emits) < MaxEmits
    /\ \E section \in FreeSections, line \in FreeLines : DoEmit(section, line)
    /\ UNCHANGED <<pruneVars, transformVars, buf, fn, rest, scur, todo, ret, recs>>

\* fn returns nil: after its loop, or wherever a Free filter stops.
ReturnNil ==
    /\ pc = "fn"
    /\ todo = << >>
    /\ rest = << >> \/ fn.kind = "Free"
    /\ pc' = "done"
    /\ ret' = [buf |-> res, nil |-> FALSE, err |-> ""]
    /\ UNCHANGED <<pruneVars, transformVars, buf, fn, rest, scur, todo, res, cur, recs, emits>>

\* return nil, fmt.Errorf("filter inf: %w", err): nothing of res is returned.
FilterErrPartial(r) == [buf |-> r, nil |-> FALSE, err |-> "filter inf"]

FilterErr(r) == [buf |-> << >>, nil |-> TRUE, err |-> "filter inf"]

\* fn returns an error.
ReturnErr ==
    /\ pc = "fn"
    /\ fn.kind = "Free"
    /\ pc' = "error"
    /\ ret' = FilterErr(res)
    /\ UNCHANGED <<pruneVars, transformVars, buf, fn, rest, scur, todo, res, cur, recs, emits>>

\* The function given to transform returned an error: trdiff returns nil
\* and the error, transform returns the error and writes nothing.
TransformErr ==
    /\ tpc = "fn"
    /\ pc = "error"
    /\ tpc' = "fnerror"
    /\ UNCHANGED <<pruneVars, infiltVars, file>>

\* The function returned a buffer: transform writes it to the file.
WriteFile ==
    /\ tpc = "fn"
    /\ pc = "done"
    /\ file' = ret.buf
    /\ tpc' = "written"
    /\ UNCHANGED <<pruneVars, infiltVars>>

\* What a failed os.WriteFile of b can leave in a file that held old: the
\* old content, or the part of b written before the failure.
FailedWrites(old, b) == {old} \cup {SubSeq(b, 1, n) : n \in 0..(Len(b) - 1)}

\* os.WriteFile fails: transform returns its error.
WriteFileErr ==
    /\ tpc = "fn"
    /\ pc = "done"
    /\ file' \in FailedWrites(file, ret.buf)
    /\ tpc' = "writeerror"
    /\ UNCHANGED <<pruneVars, infiltVars>>

Next ==
    \/ Reject \/ CallFn \/ Yield \/ EmitNext \/ EmitFree \/ ReturnNil \/ ReturnErr
    \/ TransformErr \/ WriteFile \/ WriteFileErr

Spec == Init /\ [][Next]_vars

----------------------------------------------------------------------------
(* Vocabulary of the properties, stated on the bytes of the buffers        *)

Last(s) == s[Len(s)]

HasCR(b) == \E i \in 1..Len(b) : b[i] = CR

\* Every line of b ends in "\n".
Terminated(b) == b = << >> \/ Last(b) = LF

\* The physical lines of b, in order, each with its "\n" if it has one.
RECURSIVE PhysLines(_)
PhysLines(b) ==
    IF b = << >> THEN << >>
    ELSE LET nl == {i \in 1..Len(b) : b[i] = LF}
             n == IF nl = {} THEN Len(b) ELSE CHOOSE i \in nl : \A j \in nl : i <= j
         IN  <<SubSeq(b, 1, n)>> \o PhysLines(SubSeq(b, n + 1, Len(b)))

\* l is exactly "[" + name + "]" + "\n".
IsHeaderLine(l) ==
    Len(l) >= 3 /\ l[1] = LB /\ l[Len(l) - 1] = RB /\ l[Len(l)] = LF

HeaderName(l) == SubSeq(l, 2, Len(l) - 2)

\* The name of the latest header among lines[1..k-1], "" if there is none.
SectionBefore(lines, k) ==
    LET hs == {j \in 1..(k - 1) : IsHeaderLine(lines[j])}
    IN  IF hs = {} THEN << >>
        ELSE HeaderName(lines[CHOOSE j \in hs : \A i \in hs : i <= j])

\* The record of the k-th physical line.
RecordOf(lines, k) ==
    IF IsHeaderLine(lines[k])
    THEN [section |-> HeaderName(lines[k]), line |-> << >>]
    ELSE [section |-> SectionBefore(lines, k), line |-> lines[k]]

\* The number of physical lines of b that are the header "[S]\n".
HeaderCount(b, S) ==
    LET lines == PhysLines(b)
    IN  Cardinality({k \in 1..Len(lines) : lines[k] = <<LB>> \o S \o <<RB, LF>>})

\* The first n physical lines of b without those whose record satisfies Drop.
RECURSIVE KeptLines(_, _, _, _)
KeptLines(lines, n, Drop(_), k) ==
    IF k > n THEN << >>
    ELSE (IF Drop(RecordOf(lines, k)) THEN << >> ELSE lines[k])
         \o KeptLines(lines, n, Drop, k + 1)

\* The records fn's loop body has been run on to its end.
Processed == IF todo # << >> \/ pc = "panic" THEN Len(recs) - 1 ELSE Len(recs)

\* The step is a call of emit; TheCall is its arguments.
IsEmitStep == emits' # emits
TheCall == Last(emits')
\* What the step appended to res (when res' extends res).
Written == SubSeq(res', Len(res) + 1, Len(res'))

\* emit's contract is broken by the call c.
BadCall(c) ==
    \/ c.section = << >> /\ c.line = << >>
    \/ c.line # << >> /\ Last(c.line) # LF

----------------------------------------------------------------------------
(* C1 *)

\* C1 (as claimed): with the pass-through filter, every buffer that holds no
\* "\r" and whose lines all end in "\n" is returned byte for byte: the run
\* does not abort, and the buffer returned is the input.
C1_RoundTrip ==
    (fn = Passthrough /\ ~HasCR(buf) /\ Terminated(buf)) =>
        /\ pc # "panic"
        /\ pc = "done" => (~ret.nil /\ ret.buf = buf)

----------------------------------------------------------------------------
(* C2 *)

----------------------------------------------------------------------------
(* C3 *)

\* The calls of emit with section S that are a transition into S: the call
\* before, if any, had another section.
Transitions(S) ==
    {i \in 1..Len(emits) :
        emits[i].section = S /\ (i = 1 \/ emits[i - 1].section # S)}

\* The pure-header emissions emit(S, "").
PureHeaders(S) ==
    {i \in 1..Len(emits) : emits[i].section = S /\ emits[i].line = << >>}

\* The calls of emit whose line is itself the text "[S]\n".
HeaderTexts(S) ==
    {i \in 1..Len(emits) : emits[i].line = <<LB>> \o S \o <<RB, LF>>}

EmittedSections == {emits[i].section : i \in 1..Len(emits)} \cup {SecA, SecB}

----------------------------------------------------------------------------
(* C4 *)

NeverEmitted(S) == \A i \in 1..Len(emits) : emits[i].section # S

InSection(S, r) == r.section = S

\* RemoveSection: the output is the input scanned so far without the lines
\* of the removed section, every other line as it was and in order.
RemoveSectionOutput ==
    (fn.kind = "RemoveSection" /\ pc \in {"fn", "done", "panic"}) =>
        LET lines == PhysLines(buf)
            Drop(r) == InSection(fn.sec, r)
        IN  /\ res = KeptLines(lines, Processed, Drop, 1)
            /\ pc = "done" => (~ret.nil /\ ret.buf = KeptLines(lines, Len(lines), Drop, 1))

----------------------------------------------------------------------------
(* C5 *)

----------------------------------------------------------------------------
(* C6 *)

----------------------------------------------------------------------------
(* C7 *)

\* C7 (as claimed): a line emitted without a trailing newline gets the
\* newline added, so the output ends in the line followed by "\n" and the
\* run goes on; a non-empty line emitted with an empty section is written
\* with no header and currentSection stays as it was.
C7_DocComment ==
    [][(IsEmitStep /\ TheCall.line # << >>) =>
        LET c == TheCall
            full == IF Last(c.line) = LF THEN c.line ELSE c.line \o <<LF>>
        IN  /\ pc' = "fn"
            /\ HasSuffix(res', full)
            /\ c.section = << >> => (res' = res \o full /\ cur' = cur)]_vars

----------------------------------------------------------------------------
(* C8 *)

\* C8: when the input holds a "\r" anywhere, infilt returns an error and no
\* buffer, fn is never called, no record is scanned and nothing is emitted.
C8_ForeignNewlineRejected ==
    HasCR(buf) =>
        /\ pc \in {"call", "error"}
        /\ pc = "error" => (ret.nil /\ ret.buf = << >> /\ ret.err = "expected linux-style newlines")
        /\ recs = << >> /\ emits = << >> /\ res = << >> /\ rest = << >>

\* An input whose "\r" is not in its first line has been rejected.
C8_Witness ==
    /\ pc = "error"
    /\ buf = <<LB, "A", RB, LF, "x", LF, CR>>

----------------------------------------------------------------------------
(* C9 *)

\* C9 (as claimed): no record the scanner yields has both section and line
\* empty, and the line of a content record is one physical line with its
\* trailing "\n".
C9_ScannerRecordInvariant ==
    \A k \in 1..Len(recs) :
        /\ ~(recs[k].section = << >> /\ recs[k].line = << >>)
        /\ recs[k].line # << >> =>
              /\ Last(recs[k].line) = LF
              /\ \A i \in 1..(Len(recs[k].line) - 1) : recs[k].line[i] # LF

----------------------------------------------------------------------------
(* C10 *)

----------------------------------------------------------------------------
(* C11 *)

\* C11: when the filter function returns an error, at any point and also
\* after calls of emit that wrote output, infilt returns a nil buffer and an
\* error wrapping it, transform returns without writing and the stored file
\* keeps its previous content; a buffer is returned, and the file written,
\* only when the whole rewrite succeeded.
C11_NoPartialResult ==
    /\ [][file' # file => pc = "done" /\ ~ret.nil]_vars
    /\ []((pc = "error") =>
             /\ ret.nil /\ ret.buf = << >> /\ ret.err # ""
             /\ (~ForeignNewlines(buf) => ret.err = "filter inf")
             /\ tpc \in {"fn", "fnerror"})
    /\ [](pc \in {"call", "fn", "error", "panic"} => file = buf)
    /\ [](tpc = "fnerror" => pc = "error")
    /\ [](~ret.nil => pc = "done" /\ ret.buf = res)
    /\ [](tpc = "written" => pc = "done" /\ file = ret.buf)

\* A Free filter returned an error after emit calls had written output:
\* transform has returned the error and the file is as it was.
C11_Witness ==
    /\ pc = "error" /\ tpc = "fnerror"
    /\ fn.kind = "Free" /\ res # << >> /\ Len(emits) > 1
    /\ file = buf

----------------------------------------------------------------------------
(* The pruner of nswine: removing dlls/exes which depend on removed stuff *)

\* The most imports over all the files of the directory.
MaxEdges == 3

\* The entries of the directory; sub.dll is a directory, r.exe may have
\* been deleted by the steps before.
BaseDir == {"p.dll", "Q.dll", "explorer.exe", "w.drv", "sub.dll"}
Dirs == {BaseDir, BaseDir \cup {"r.exe"}}

\* The names found in import tables, spelled as in the files.
ImportNames == {"P.DLL", "q.dll", "r.exe", "explorer.exe", "w.drv"}

\* di.IsDir()
IsDir(name) == name = "sub.dll"

\* filepath.Ext
Ext(name) ==
    CASE name \in {"p.dll", "q.dll", "Q.dll", "sub.dll"} -> ".dll"
      [] name \in {"r.exe", "explorer.exe"} -> ".exe"
      [] name = "w.drv" -> ".drv"
      [] name = "P.DLL" -> ".DLL"

\* strings.ToLower
ToLower(name) ==
    CASE name \in {"P.DLL", "p.dll"} -> "p.dll"
      [] name \in {"Q.dll", "q.dll"} -> "q.dll"
      [] OTHER -> name

\* The order of slices.Sorted on the names.
Rank(name) ==
    CASE name = "explorer.exe" -> 1
      [] name = "p.dll" -> 2
      [] name = "q.dll" -> 3
      [] name = "r.exe" -> 4
      [] name = "sub.dll" -> 5
      [] name = "w.drv" -> 6

Range(s) == {s[i] : i \in 1..Len(s)}

\* The entries peImports is called on: explorer.exe is not skipped.
QueriedWithExplorer(entries) ==
    {e \in entries : ~IsDir(e) /\ Ext(e) \in {".dll", ".exe"}}

\* The entries peImports is called on: the files with extension .dll or
\* .exe, but for explorer.exe.
Queried(entries) ==
    {e \in entries : ~IsDir(e) /\ Ext(e) \in {".dll", ".exe"} /\ e # "explorer.exe"}

\* for i, dep := range deps { deps[i] = strings.ToLower(dep) }
LowerAll(deps) == [i \in 1..Len(deps) |-> ToLower(deps[i])]

\* uncase[name]
Uncase(entries, name) == CHOOSE e \in entries : ToLower(e) = name

\* The map built from the entries and their import tables.
BuildDeps(entries, imp) ==
    [k \in {ToLower(e) : e \in Queried(entries)} |->
        LowerAll(imp[Uncase(Queried(entries), k)])]

\* The dependencies of name that are not keys of the map; a dependency on
\* itself counts as missing too.
MissingOrSelf(map, name) ==
    SelectSeq(map[name], LAMBDA dep : dep \notin DOMAIN map \/ dep = name)

\* The first dependency of name, when it is not a key of the map.
MissingFirst(map, name) ==
    IF map[name] # << >> /\ Head(map[name]) \notin DOMAIN map
    THEN <<Head(map[name])>> ELSE << >>

\* The dependencies of name that are not keys of the map:
\* for _, dep := range dlldeps[name] { if _, ok := dlldeps[dep]; !ok {...} }
Missing(map, name) ==
    SelectSeq(map[name], LAMBDA dep : dep \notin DOMAIN map)

\* The remove map of a round marking every module that has dependencies.
MarkedAny(map) ==
    [name \in {n \in DOMAIN map : map[n] # << >>} |-> map[name]]

\* The remove map of a round.
Marked(map) ==
    [name \in {n \in DOMAIN map : Missing(map, n) # << >>} |-> Missing(map, name)]

\* delete(dlldeps, name) emptying the map.
DeleteAll(map, name) == [k \in {} |-> << >>]

\* delete(dlldeps, name)
Delete(map, name) == [k \in DOMAIN map \ {name} |-> map[k]]

\* it++ counting twice.
NextIterationTwice(i) == i + 2

\* it++
NextIteration(i) == i + 1

\* The record of slog.Debug, counting the iterations from one.
RecordFromOne(i, name, deps) == [iteration |-> i + 1, name |-> name, broken_deps |-> deps]

\* slog.Debug("removing", "iteration", it, "name", name, "broken_deps", deps)
Record(i, name, deps) == [iteration |-> i, name |-> name, broken_deps |-> deps]

\* What peImports returns for the files that are not asked.
OtherImports(f) == IF f = "explorer.exe" THEN <<"w.drv">> ELSE << >>

\* The import tables with at most n imports in all.
RECURSIVE ImportMaps(_, _)
ImportMaps(files, n) ==
    IF n = 0 THEN {[f \in files |-> << >>]}
    ELSE LET prev == ImportMaps(files, n - 1)
         IN  prev \cup {[im EXCEPT ![f] = Append(@, d)] :
                           im \in prev, f \in files, d \in ImportNames}

\* The import tables of the files of a directory.
Imports(entries) ==
    LET files == {e \in entries : ~IsDir(e)}
    IN  {[f \in files |-> IF f \in Queried(entries) THEN im[f] ELSE OtherImports(f)] :
            im \in ImportMaps(Queried(entries), MaxEdges)}

\* The function given to transform is not running.
IdleInfilt ==
    /\ buf = << >>
    /\ fn = Passthrough
    /\ pc = "idle"
    /\ rest = << >>
    /\ scur = << >>
    /\ todo = << >>
    /\ res = << >>
    /\ cur = << >>
    /\ ret = NoReturn
    /\ recs = << >>
    /\ emits = << >>

IdleTransform ==
    /\ file = << >>
    /\ tpc = "idle"

InitPrune ==
    /\ IdleInfilt
    /\ IdleTransform
    /\ dir \in Dirs
    /\ imports \in Imports(dir)
    /\ dlldeps = NoMap
    /\ remove = NoMap
    /\ pending = {}
    /\ it = 0
    /\ log = << >>
    /\ ppc = "build"

\* The map is built from the entries of the directory.
BuildMap ==
    /\ ppc = "build"
    /\ dlldeps' = BuildDeps(dir, imports)
    /\ ppc' = "mark"
    /\ UNCHANGED <<infiltVars, transformVars, dir, imports, remove, pending, it, log>>

\* os.ReadDir or peImports returns an error.
BuildErr ==
    /\ ppc = "build"
    /\ ppc' = "failed"
    /\ UNCHANGED <<infiltVars, transformVars, dir, imports, dlldeps, remove, pending, it, log>>

\* A round marks the modules to remove; the loop stops when there are none.
Mark ==
    /\ ppc = "mark"
    /\ remove' = Marked(dlldeps)
    /\ pending' = DOMAIN remove'
    /\ ppc' = IF DOMAIN remove' = {} THEN "done" ELSE "remove"
    /\ UNCHANGED <<infiltVars, transformVars, dir, imports, dlldeps, it, log>>

\* The range over remove visits its next key, in the order of the map:
\* the module is reported, its file deleted, its key deleted; after the
\* last key the round is over.
RemoveOne ==
    /\ ppc = "remove"
    /\ \E name \in pending :
          /\ log' = Append(log, Record(it, name, remove[name]))
          /\ dir' = dir \ {Uncase(dir, name)}
          /\ dlldeps' = Delete(dlldeps, name)
          /\ pending' = pending \ {name}
    /\ IF pending' = {}
       THEN it' = NextIteration(it) /\ ppc' = "mark"
       ELSE UNCHANGED <<it, ppc>>
    /\ UNCHANGED <<infiltVars, transformVars, imports, remove>>

\* os.Remove returns an error for the next key: the pruner returns it.
RemoveErr ==
    /\ ppc = "remove"
    /\ \E name \in pending :
          /\ log' = Append(log, Record(it, name, remove[name]))
          /\ pending' = pending \ {name}
    /\ ppc' = "failed"
    /\ UNCHANGED <<infiltVars, transformVars, dir, imports, dlldeps, remove, it>>

NextPrune == BuildMap \/ BuildErr \/ Mark \/ RemoveOne \/ RemoveErr

\* The pruner is sequential code: it takes its next step.
SpecPrune == InitPrune /\ [][NextPrune]_vars /\ WF_vars(NextPrune)

----------------------------------------------------------------------------
(* Vocabulary of the pruner's properties                                   *)

\* The dependency map as built, before any round.
Dlldeps0 == BuildDeps(DOMAIN imports, imports)
Keys0 == DOMAIN Dlldeps0

\* The retained set: the keys still in the map.
Retained == DOMAIN dlldeps

\* The map has been built.
Built == ppc \in {"mark", "remove", "done"} \/ (ppc = "failed" /\ log # << >>)

\* Every dependency of every module of S is in S.
Closed(S) == \A m \in S : Range(Dlldeps0[m]) \subseteq S

\* The modules the records of log before position k say were removed.
Logged(k) == {log[j].name : j \in 1..(k - 1)}

\* The modules the records of the rounds before round i say were removed.
LoggedBefore(i) == {log[j].name : j \in {x \in 1..Len(log) : log[x].iteration < i}}

----------------------------------------------------------------------------
(* C12 *)

\* C12: when the pruning loop stops, the retained set is closed: every
\* dependency of every retained module is itself retained, so that a second
\* pass over the result marks nothing.
C12_FixedPoint ==
    ppc = "done" =>
        /\ Closed(Retained)
        /\ \A m \in Retained : \A i \in 1..Len(dlldeps[m]) : dlldeps[m][i] \in Retained
        /\ remove = NoMap

\* The loop stopped after a removing round and retained a module that has
\* a dependency.
C12_Witness ==
    /\ ppc = "done" /\ it >= 1
    /\ \E m \in Retained : dlldeps[m] # << >>

----------------------------------------------------------------------------
(* C13 *)

\* The greatest closed subset of the keys.
GreatestClosed == UNION {S \in SUBSET Keys0 : Closed(S)}

\* The modules with a dependency that is not a key.
Dangling == {m \in Keys0 : ~(Range(Dlldeps0[m]) \subseteq Keys0)}

\* The modules that reach a module of B in at most n dependency steps.
RECURSIVE Reaching(_, _)
Reaching(B, n) ==
    IF n = 0 THEN B
    ELSE Reaching(B \cup {m \in Keys0 : Range(Dlldeps0[m]) \cap B # {}}, n - 1)

\* The modules that depend, directly or transitively, on a name that is
\* not a key.
Broken == Reaching(Dangling, Cardinality(Keys0))

\* C13: the final retained set is the greatest closed subset of the keys:
\* no module is removed unless it depends, directly or transitively, on a
\* name that is not a key, and when every dependency of every module is a
\* key nothing is removed.
C13_Maximality ==
    /\ Built => GreatestClosed \subseteq Retained
    /\ Built => (Keys0 \ Retained) \subseteq Broken
    /\ ppc = "done" => Retained = GreatestClosed /\ Retained = Keys0 \ Broken
    /\ (Built /\ Dangling = {}) => Retained = Keys0 /\ log = << >>

\* Two rounds removed a module with a dangling import and then its
\* importer, and a module was retained.
C13_Witness ==
    /\ ppc = "done" /\ it = 2
    /\ Retained # {}
    /\ Keys0 \ Retained # Dangling

\* Every dependency is a key, some module has one, and the loop stopped.
C13_WitnessNothingRemoved ==
    /\ ppc = "done" /\ Dangling = {}
    /\ \E m \in Keys0 : Dlldeps0[m] # << >>

----------------------------------------------------------------------------
(* C14 *)

\* C14: the removal log is a function of the map: within a round the
\* modules are reported, and their files deleted, in lexicographic order of
\* their names, whatever the iteration order of the remove map.
C14_StableOrder ==
    \A k \in 1..(Len(log) - 1) :
        log[k].iteration = log[k + 1].iteration =>
            Rank(log[k].name) < Rank(log[k + 1].name)

\* The rounds themselves are in order, and the retained set does not depend
\* on the order within a round.
C14_RetainedSetStable ==
    /\ \A k \in 1..(Len(log) - 1) : log[k].iteration <= log[k + 1].iteration
    /\ ppc = "done" => Retained = GreatestClosed

----------------------------------------------------------------------------
(* C15 *)

\* C15: the pruning loop terminates; the retained set never grows; every
\* round that does not stop the loop removes at least one module, so that the
\* rounds that remove something are at most as many as the modules.
C15_Termination ==
    /\ <>(ppc \in {"done", "failed"})
    /\ [][Built => Retained' \subseteq Retained]_vars
    /\ [][it' # it => Retained' # Retained]_vars
    /\ [](Built => it + Cardinality(Retained) <= Cardinality(Keys0))
    /\ [](it <= Cardinality(Keys0))

\* A chain of three modules was unwound one link per round.
C15_Witness ==
    /\ ppc = "done" /\ it = 3
    /\ Cardinality(Keys0) = 3 /\ Retained = {}

----------------------------------------------------------------------------
(* C16 *)

\* The retained set at the start of iteration i, replayed from the log.
RetainedAt(i) == Keys0 \ LoggedBefore(i)

\* The dependencies of m missing from S, in the order of its list.
MissingFrom(m, S) == SelectSeq(Dlldeps0[m], LAMBDA dep : dep \notin S)

\* Scenario D: {P: [Q], Q: [X]}, X absent (r.exe is not in the directory).
ScenarioD ==
    /\ "r.exe" \notin DOMAIN imports
    /\ Dlldeps0 = [k \in {"p.dll", "q.dll"} |->
                      IF k = "p.dll" THEN <<"q.dll">> ELSE <<"r.exe">>]

----------------------------------------------------------------------------
(* C17 *)

\* C17 as claimed: after a pruning run the dependency map has the keys and
\* the lists it had before.
C17_MapNotMutated == Built => dlldeps = Dlldeps0

\* The modules whose key has been deleted: those of the records, but for
\* the one whose os.Remove failed.
Deleted == Logged(IF ppc = "failed" THEN Len(log) ELSE Len(log) + 1)

\* C17: the dependency map is itself the retained set: the pruner deletes
\* the keys of the removed modules from it and leaves the lists of the
\* others as they were; the marking pass does not modify the map it scans,
\* and the removal loop does not modify the remove map it ranges over.
C17_MapIsRetainedSet ==
    /\ [](Built => /\ Retained = Keys0 \ Deleted
                   /\ \A m \in Retained : dlldeps[m] = Dlldeps0[m])
    /\ [][ppc = "mark" => dlldeps' = dlldeps]_vars
    /\ [][ppc = "remove" => remove' = remove]_vars

\* The loop stopped with a map that lost a key and kept another.
C17_Witness ==
    /\ ppc = "done"
    /\ Retained # {} /\ Retained # Keys0

----------------------------------------------------------------------------
(* C18 *)

\* The dependencies of m as a set, without m itself.
OtherDeps(m) == Range(Dlldeps0[m]) \ {m}

\* The greatest subset of the keys closed under OtherDeps.
GreatestClosedOther ==
    UNION {S \in SUBSET Keys0 : \A m \in S : OtherDeps(m) \subseteq S}

\* C18: a dependency of a module on itself is never a cause of removal, and
\* listing a dependency twice changes nothing: the retained set is the one
\* of the map with every list taken as a set and the self-edges left out.
C18_SelfAndDuplicateEdges ==
    /\ \A k \in 1..Len(log) : log[k].name \notin Range(log[k].broken_deps)
    /\ Built => \A m \in Keys0 : OtherDeps(m) = {} => m \in Retained
    /\ ppc = "done" => Retained = GreatestClosedOther

\* A module importing itself was retained, and a module listing a missing
\* dependency twice was removed.
C18_Witness ==
    /\ ppc = "done"
    /\ \E m \in Retained : m \in Range(Dlldeps0[m])
    /\ \E k \in 1..Len(log) :
          /\ Len(log[k].broken_deps) = 2
          /\ log[k].broken_deps[1] = log[k].broken_deps[2]

----------------------------------------------------------------------------
(* C20 *)

\* The entries that are in the directory and never enter the map:
\* explorer.exe, a file that is neither .dll nor .exe, a directory.
NeverMapped == {"explorer.exe", "w.drv", "sub.dll"}

\* C20: whether a dependency is present is decided by the keys of the map
\* alone: a module is removed exactly for the imports, case-folded, that are
\* not keys at that round; an entry of the directory that never entered the
\* map counts as absent, so that every module importing it is removed, in
\* the first round, while the entry itself stays; a missing name makes the
\* marking pass remove, never fail.
C20_PresenceByMapOnly ==
    /\ [](NeverMapped \subseteq dir /\ (Built => NeverMapped \cap Keys0 = {}))
    /\ [](\A k \in 1..Len(log) :
            /\ Range(log[k].broken_deps) \cap RetainedAt(log[k].iteration) = {}
            /\ Range(log[k].broken_deps) =
                  Range(Dlldeps0[log[k].name]) \ RetainedAt(log[k].iteration))
    /\ []((ppc = "done") =>
            \A m \in Keys0 :
                Range(Dlldeps0[m]) \cap NeverMapped # {} =>
                    \E k \in 1..Len(log) : log[k].name = m /\ log[k].iteration = 0)
    /\ [][ppc = "mark" => ppc' \in {"remove", "done"}]_vars

\* A module importing explorer.exe and a module importing w.drv were
\* removed, both files being in the directory.
C20_Witness ==
    /\ ppc = "done"
    /\ \E k \in 1..Len(log) : "explorer.exe" \in Range(log[k].broken_deps)
    /\ \E k \in 1..Len(log) : "w.drv" \in Range(log[k].broken_deps)
    /\ {"explorer.exe", "w.drv"} \subseteq dir

----------------------------------------------------------------------------
(* The patch of explorer.exe: the default graphics driver *)

\* The most bytes before the string, but for LongPad.
MaxPad == 3

\* The zero byte.
NUL == "00"

\* u8to16 on ASCII text: every character becomes its byte and a zero byte.
RECURSIVE u8to16(_)
u8to16(str) ==
    IF str = << >> THEN << >>
    ELSE <<Head(str), NUL>> \o u8to16(Tail(str))

\* "mac,x11,wayland\x00" and "null\x00"
DriverValue ==
    <<"m", "a", "c", ",", "x", "1", "1", ",", "w", "a", "y", "l", "a", "n", "d", NUL>>
NullValue == <<"n", "u", "l", "l", NUL>>

\* bytes.Index: the offset of the first occurrence of sep in b, or -1.
Index(b, sep) ==
    LET hits == {i \in 0..(Len(b) - Len(sep)) : SubSeq(b, i + 1, i + Len(sep)) = sep}
    IN  IF hits = {} THEN -1 ELSE CHOOSE i \in hits : \A j \in hits : i <= j

\* The slice dst after copy(dst, src): min(len(dst), len(src)) bytes of src
\* are copied to its start.
Copy(dst, src) ==
    [k \in 1..Len(dst) |-> IF k <= Len(src) THEN src[k] ELSE dst[k]]

\* buf after copy(buf[:i], src)
CopyToHead(b, i, src) == Copy(SubSeq(b, 1, i), src) \o SubSeq(b, i + 1, Len(b))

\* The bytes around the string.
RECURSIVE Pads(_)
Pads(n) ==
    IF n = 0 THEN {<< >>}
    ELSE LET prev == Pads(n - 1)
         IN  prev \cup {Append(p, c) : p \in prev, c \in {"M", NUL}}

LongPad == u8to16(<<"M", "Z", "M", "Z", "M", "Z">>)

\* The contents of explorer.exe: the string, or what is left of it in a
\* file patched or cut before, between other bytes.
PatchBufs ==
    {p \o mid \o q :
        p \in Pads(MaxPad) \cup {LongPad},
        mid \in {u8to16(DriverValue), u8to16(NullValue),
                 SubSeq(u8to16(DriverValue), 1, 30)},
        q \in {<< >>, <<"M">>, u8to16(DriverValue)}}

ExplorerPatch == Fn("ExplorerPatch", << >>, << >>, << >>)

InitPatch ==
    /\ buf \in PatchBufs
    /\ fn = ExplorerPatch
    /\ pc = "call"
    /\ rest = << >>
    /\ scur = << >>
    /\ todo = << >>
    /\ res = << >>
    /\ cur = << >>
    /\ ret = NoReturn
    /\ recs = << >>
    /\ emits = << >>
    /\ file = buf
    /\ tpc = "fn"
    /\ IdlePrune

\* The function given to transform for explorer.exe.
Patch ==
    /\ pc = "call"
    /\ fn.kind = "ExplorerPatch"
    /\ LET i == Index(buf, u8to16(DriverValue))
       IN  IF i = -1
           THEN /\ pc' = "error"
                /\ ret' = [buf |-> << >>, nil |-> TRUE,
                           err |-> "couldn't find default graphics driver value"]
                /\ buf' = buf
           ELSE /\ pc' = "done"
                /\ buf' = CopyToHead(buf, i, u8to16(NullValue))
                /\ ret' = [buf |-> buf', nil |-> FALSE, err |-> ""]
    /\ UNCHANGED <<pruneVars, transformVars, fn, rest, scur, todo, res, cur, recs, emits>>

NextPatch == Patch \/ TransformErr \/ WriteFile \/ WriteFileErr

SpecPatch == InitPatch /\ [][NextPatch]_vars

----------------------------------------------------------------------------
(* C19 *)

\* C19: when the string first occurs at offset i of the file, the buffer
\* returned, and written, has the bytes of "null\x00" in UTF-16LE from
\* offset i on, every byte before offset i as it was, and the length it had.
C19_PatchInPlace ==
    (pc = "done" /\ tpc = "fn") =>
        LET i == Index(file, u8to16(DriverValue))
            new == u8to16(NullValue)
        IN  /\ Len(ret.buf) = Len(file)
            /\ SubSeq(ret.buf, 1, i) = SubSeq(file, 1, i)
            /\ SubSeq(ret.buf, i + 1, i + Len(new)) = new

\* The string is not found: an error is returned and the file is not
\* rewritten; the length never changes.
C19_NotFound ==
    /\ Index(file, u8to16(DriverValue)) = -1 /\ tpc = "fn" => pc \in {"call", "error"}
    /\ pc = "error" => ret.nil /\ file = buf /\ tpc \in {"fn", "fnerror"}
    /\ pc = "done" => Len(ret.buf) = Len(buf)

====
